---- MODULE Spec2Model ----
(***************************************************************************)
(* Order / invoice workflow of the Tatylu backend.                         *)
(*                                                                         *)
(*   src/routes/invoices.js   POST /invoices (checkout), pricing helpers   *)
(*   src/unnamed/part_001     Order model, getNextOrderId, pre('save')     *)
(*   src/models/Sequence.js   the 'order-id' counter record                *)
(*   src/unnamed/part_002     POST /orders                                 *)
(*                                                                         *)
(* Numbers.  A JavaScript value is a record [t, v]: t is "undef", "null",  *)
(* "str" (a non-numeric string), "nan" or "num"; v is the number, scaled:  *)
(*   money      in mills (1/1000 of the currency unit; 4.50 is 4500), so   *)
(*              that rounding to cents is a real operation;                *)
(*   quantities in halves (3 is 1.5 units), so that Math.floor is one;     *)
(*   rates      in percent (15 is 0.15).                                   *)
(***************************************************************************)
EXTENDS Integers, Sequences, FiniteSets, TLC

(***************************************************************************)
(* Bounds of the model.                                                    *)
(***************************************************************************)
MaxStock == 2
MaxAttempts == 2
MaxSeqValue == 33
MaxSeqCalls == 120
MaxUnits == 40
MaxPuts == 1

(***************************************************************************)
(* Program constants.                                                      *)
(***************************************************************************)
DEFAULT_TAX_RATE == 15
BASE_SHIPPING_FEE == 3500
PER_ITEM_SHIPPING_FEE == 500
MAX_SHIPPING_FEE == 20000
OrderIdFloor == 30

(***************************************************************************)
(* JavaScript values and the numeric helpers of invoices.js.               *)
(***************************************************************************)
Undef == [t |-> "undef", v |-> 0]
Null == [t |-> "null", v |-> 0]
Str == [t |-> "str", v |-> 0]
NaN == [t |-> "nan", v |-> 0]
Num(n) == [t |-> "num", v |-> n]

\* Number(value): null converts to 0, undefined and a non-numeric string to NaN.
Number(value) ==
  CASE value.t = "num" -> value
    [] value.t = "null" -> Num(0)
    [] OTHER -> NaN

IsFinite(num) == num.t = "num"

\* a ?? b
Coalesce(a, b) == IF a.t \in {"undef", "null"} THEN b ELSE a

toNumber(value, fallback) ==
  LET num == Number(value) IN IF IsFinite(num) THEN num ELSE fallback

\* Math.round(value * 100) / 100 of the rational n/d mills (d > 0): the
\* nearest cent, halves upwards, as a number of mills.
roundMoney(n, d) == 10 * ((2 * n + 10 * d) \div (20 * d))

Max(a, b) == IF a >= b THEN a ELSE b
Min(a, b) == IF a <= b THEN a ELSE b

RECURSIVE SumQuantity(_)
SumQuantity(items) ==
  IF items = << >> THEN 0
  ELSE Head(items).quantity + SumQuantity(Tail(items))

\* calculateShippingCost(shippingSource, items); costo is the first present
\* of shippingSource.costo / cost / shippingFee.
calculateShippingCost(costo, items) ==
  LET manualCost == toNumber(Coalesce(costo, Null), NaN)
      totalUnits == SumQuantity(items)
      incremental == Max(0, totalUnits - 1) * PER_ITEM_SHIPPING_FEE
      computed == BASE_SHIPPING_FEE + incremental
  IN IF IsFinite(manualCost) /\ manualCost.v >= 0
     THEN roundMoney(manualCost.v, 1)
     ELSE roundMoney(Min(MAX_SHIPPING_FEE, computed), 1)

(***************************************************************************)
(* The catalog, the users and the identifiers a request can name.          *)
(* "px", "py" and "ux" are well-formed ObjectIds of no stored document;    *)
(* "bad!" is not a well-formed ObjectId.                                   *)
(***************************************************************************)
Products == {"p1", "p2"}
Users == {"u1"}

\* The requests; the _id of an order begins with the request that made it.
Reqs == {"r1", "r2"}
OrderReqs == {"o1"}

ValidObjectIds == Products \cup Users \cup Reqs \cup OrderReqs \cup {"px", "py", "ux"}

\* precio (mills) and descuento (percent) of the stored products.
Precio == [p \in Products |-> IF p = "p1" THEN 10000 ELSE 9990]
Descuento == [p \in Products |-> IF p = "p1" THEN 10 ELSE 15]
InitStock == [p \in Products |-> MaxStock]
InitCart == <<"p1">>

\* mongoose.Types.ObjectId.isValid
ObjectIdIsValid(id) == id \in ValidObjectIds

(***************************************************************************)
(* sanitizeItems(products).  products is [kind, list]: kind "missing",     *)
(* "notlist" or "list"; an entry is [productId, quantity] with productId   *)
(* the trimmed first present alias ("" when none) and quantity a JS value  *)
(* in halves.  The result is [error, items]; error "" means none.          *)
(***************************************************************************)
\* The item check without the test of the quantity's sign.
ItemErrorAnySign(item) ==
  LET quantity == toNumber(Coalesce(item.quantity, Undef), NaN) IN
  CASE item.productId = "" -> "Each item must include productId"
    [] ~ObjectIdIsValid(item.productId) -> "Invalid productId format"
    [] ~IsFinite(quantity) -> "Invalid quantity for product"
    [] OTHER -> ""

ItemError(item) ==
  LET quantity == toNumber(Coalesce(item.quantity, Undef), NaN) IN
  CASE item.productId = "" -> "Each item must include productId"
    [] ~ObjectIdIsValid(item.productId) -> "Invalid productId format"
    [] ~IsFinite(quantity) \/ quantity.v <= 0 -> "Invalid quantity for product"
    [] OTHER -> ""

\* { productId, quantity: Math.floor(quantity) }
SanitizedItem(item) ==
  [productId |-> item.productId,
   quantity |-> toNumber(Coalesce(item.quantity, Undef), NaN).v \div 2]

sanitizeItems(products) ==
  IF products.kind # "list" \/ Len(products.list) = 0
  THEN [error |-> "products array is required", items |-> << >>]
  ELSE LET bad == {i \in 1..Len(products.list) : ItemError(products.list[i]) # ""}
       IN IF bad # {}
          THEN [error |-> ItemError(products.list[CHOOSE i \in bad : \A j \in bad : i <= j]),
                items |-> << >>]
          ELSE [error |-> "",
                items |-> [i \in 1..Len(products.list) |-> SanitizedItem(products.list[i])]]

(***************************************************************************)
(* Request bodies of POST /invoices.                                       *)
(*   products  the raw products field                                      *)
(*   userId    "" when absent                                              *)
(*   user      the inline buyer: "none", "partial" (no email or no name)   *)
(*             or "full"                                                   *)
(*   costo     shipping.costo ?? cost ?? shippingFee (mills)               *)
(*   discount  body.discount ?? body.totals.discount (mills)               *)
(*   taxRate   body.taxRate (percent)                                      *)
(***************************************************************************)
Entry(p, q) == [productId |-> p, quantity |-> q]
List(l) == [kind |-> "list", list |-> l]

Body(products, userId, user, costo, discount, taxRate) ==
  [products |-> products, userId |-> userId, user |-> user,
   costo |-> costo, discount |-> discount, taxRate |-> taxRate]

\* Well-formed product lists: one line or two, duplicates, an unknown
\* product, quantities up to one more than the stock, and a quantity of 0.5.
StockLists ==
  {List(<<Entry("p1", Num(2 * q))>>) : q \in 1..(MaxStock + 1)}
  \cup {List(<<Entry("p2", Num(2))>>),
        List(<<Entry("p1", Num(2)), Entry("p2", Num(2))>>),
        List(<<Entry("p2", Num(2)), Entry("p1", Num(2 * MaxStock))>>),
        List(<<Entry("p1", Num(2)), Entry("p2", Num(2 * (MaxStock + 1)))>>),
        List(<<Entry("p1", Num(2)), Entry("p1", Num(2))>>),
        List(<<Entry("p1", Num(2)), Entry("px", Num(2))>>),
        List(<<Entry("px", Num(2)), Entry("py", Num(2))>>),
        List(<<Entry("p1", Num(1))>>)}

\* Product inputs that sanitizeItems rejects.
InvalidLists ==
  {[kind |-> "missing", list |-> << >>], [kind |-> "notlist", list |-> << >>], List(<< >>),
   List(<<Entry("p1", Num(0))>>),
   List(<<Entry("p1", Num(-2))>>),
   List(<<Entry("p1", Str)>>),
   List(<<Entry("bad!", Num(2))>>),
   List(<<Entry("", Num(2))>>)}

\* shipping cost, discount and tax rate: absent, or present with values that
\* exercise the rounding, the clamping at zero and the fallbacks.
PricingInputs ==
  {[costo |-> Num(1235), discount |-> Num(1004), taxRate |-> Num(12)],
   [costo |-> Str, discount |-> Num(99999), taxRate |-> Str],
   [costo |-> Num(-1), discount |-> Num(-500), taxRate |-> Num(-300)],
   [costo |-> Null, discount |-> Str, taxRate |-> Num(0)]}

Bodies ==
  {Body(l, b.userId, b.user, Undef, Undef, Undef) :
     l \in StockLists,
     b \in {[userId |-> "u1", user |-> "none"], [userId |-> "", user |-> "full"]}}
  \cup {Body(List(<<Entry("p1", Num(2)), Entry("p2", Num(2))>>), "", "full",
             pr.costo, pr.discount, pr.taxRate) : pr \in PricingInputs}
  \cup {Body(l, u, "none", Undef, Undef, Undef) : l \in InvalidLists, u \in {"u1", "ux"}}
  \cup {Body(List(<<Entry("p1", Num(2))>>), b.userId, b.user, Undef, Undef, Undef) :
     b \in {[userId |-> "ux", user |-> "none"], [userId |-> "bad!", user |-> "none"],
            [userId |-> "", user |-> "partial"], [userId |-> "", user |-> "none"]}}

SimpleBodies ==
  {Body(List(<<Entry("p1", Num(2))>>), "u1", "none", Undef, Undef, Undef),
   Body(List(<<Entry("p2", Num(2))>>), "", "full", Undef, Undef, Undef)}

\* Bodies that reach every way out of the handler: the two well-formed ones,
\* a quantity above the stock, an unknown product, no items, an unknown buyer.
LiveBodies ==
  SimpleBodies
  \cup {Body(List(<<Entry("p1", Num(2 * (MaxStock + 1)))>>), "u1", "none", Undef, Undef, Undef),
        Body(List(<<Entry("p1", Num(2)), Entry("px", Num(2))>>), "", "full", Undef, Undef, Undef),
        Body(List(<< >>), "u1", "none", Undef, Undef, Undef),
        Body(List(<<Entry("p1", Num(2))>>), "ux", "none", Undef, Undef, Undef)}

NoBody ==
  [products |-> [kind |-> "missing", list |-> << >>], userId |-> "", user |-> "none",
   costo |-> Undef, discount |-> Undef, taxRate |-> Undef]

(***************************************************************************)
(* Pricing of the transaction body.                                        *)
(***************************************************************************)
\* useTaxRate: body.taxRate when it is a finite number, else the default.
useTaxRate(body) == IF IsFinite(body.taxRate) THEN body.taxRate.v ELSE DEFAULT_TAX_RATE

\* discountValue
discountValue(body) == Max(0, roundMoney(toNumber(Coalesce(body.discount, Num(0)), Num(0)).v, 1))

\* The unit price with the discount left out.
priceAfterDiscountNoDiscount(p) == roundMoney(Precio[p] * 100, 100)

\* priceAfterDiscount and lineTotal of one line of product p.
priceAfterDiscount(p) == roundMoney(Precio[p] * (100 - Descuento[p]), 100)
lineTotalOf(p, quantity) == roundMoney(priceAfterDiscount(p) * quantity, 1)

\* The totals without the clamp of the total at zero.
totalsForUiUnclamped(subtotal, taxRate, shippingCost, discount) ==
  LET taxes == roundMoney(subtotal * taxRate, 100) IN
  [subtotal |-> subtotal,
   iva |-> taxes,
   envio |-> shippingCost,
   discount |-> discount,
   total |-> roundMoney(subtotal + taxes + shippingCost - discount, 1)]

\* totalsForUi
totalsForUi(subtotal, taxRate, shippingCost, discount) ==
  LET taxes == roundMoney(subtotal * taxRate, 100) IN
  [subtotal |-> subtotal,
   iva |-> taxes,
   envio |-> shippingCost,
   discount |-> discount,
   total |-> roundMoney(Max(0, subtotal + taxes + shippingCost - discount), 1)]

(***************************************************************************)
(* State.                                                                  *)
(*                                                                         *)
(* The document store (committed data):                                    *)
(*   stock          Product.stock of each product                          *)
(*   sequence       the Sequence collection: at most one 'order-id' record *)
(*   orders         the Order collection, in insertion order               *)
(*   users          cart and orders of each User                           *)
(*   clock          number of commits so far; lastWrite and userLastWrite  *)
(*                  give the commit that last wrote a document             *)
(* POST /invoices, per request r:                                          *)
(*   pc, body, status (0: no response yet), session, attempts (runs of the *)
(*   withTransaction callback), sendMailCalls, and tx, the state of the    *)
(*   running transaction: its snapshot time, the product documents it      *)
(*   loaded, the loop position, its uncommitted writes and the locals of   *)
(*   the callback                                                          *)
(*   mailResult     the notification of r: "none", or "pending", "ok",     *)
(*                  "failed" (ok = false), "threw", and the order it names *)
(*   putCount       number of PUT /products requests handled (history)     *)
(* GET /invoices/:id:                                                      *)
(*   view           the id asked for, the status answered (0: none yet),   *)
(*                  the document sent and what threw, if anything          *)
(*   failedAt       where the request failed ("idle": before the session,  *)
(*                  "tx": thrown by the callback or by a conflict,         *)
(*                  "storage": a storage error), whether the attempt had   *)
(*                  written stock, the product ids its message names, and  *)
(*                  the id codes given to the discarded runs of the        *)
(*                  callback (history)                                     *)
(* POST /orders, per request o: opc, oupdated, ostatus                     *)
(* returned         the values returned by getNextOrderId (history)        *)
(* script           a caller making getNextOrderId calls one after another *)
(* calc             one application of calculateShippingCost: its inputs   *)
(*                  and, once applied, its result                          *)
(***************************************************************************)
VARIABLES stock, lastWrite, sequence, orders, users, userLastWrite, clock,
          pc, body, status, session, attempts, sendMailCalls, tx, failedAt,
          opc, oupdated, ostatus, returned, script, calc, mailResult, putCount, view

store == <<stock, lastWrite, sequence, orders, users, userLastWrite, clock>>
checkout == <<pc, body, status, session, attempts, sendMailCalls, tx, failedAt>>
ordersRoute == <<opc, oupdated, ostatus, script, calc>>
aside == <<mailResult, putCount, view>>
vars == <<stock, lastWrite, sequence, orders, users, userLastWrite, clock,
          pc, body, status, session, attempts, sendMailCalls, tx, failedAt,
          opc, oupdated, ostatus, returned, script, calc, mailResult, putCount, view>>

NoTx ==
  [startTs |-> 0, docs |-> [p \in Products |-> 0], i |-> 0, written |-> {},
   invoiceItems |-> << >>, subtotal |-> 0, updated |-> 0, nextId |-> 0,
   order |-> << >>, pending |-> FALSE, user |-> << >>, committedOrder |-> << >>]

NoMail == [st |-> "none", order |-> << >>]

NotFailed == [at |-> "", wrote |-> FALSE, names |-> << >>, ids |-> {}]

NoView == [id |-> "", status |-> 0, html |-> << >>, threw |-> ""]

NoCalc == [costo |-> Undef, items |-> << >>, result |-> 0, applied |-> FALSE]

\* No request in progress; the stored catalog and users.
InitIdle ==
  /\ script = [pc |-> "idle", updated |-> 0]
  /\ stock = InitStock
  /\ lastWrite = [p \in Products |-> 0]
  /\ users = [u \in Users |-> [cart |-> InitCart, orders |-> << >>]]
  /\ userLastWrite = [u \in Users |-> 0]
  /\ pc = [r \in Reqs |-> "idle"]
  /\ body = [r \in Reqs |-> NoBody]
  /\ status = [r \in Reqs |-> 0]
  /\ session = [r \in Reqs |-> "none"]
  /\ attempts = [r \in Reqs |-> 0]
  /\ sendMailCalls = [r \in Reqs |-> 0]
  /\ tx = [r \in Reqs |-> NoTx]
  /\ failedAt = [r \in Reqs |-> NotFailed]
  /\ opc = [o \in OrderReqs |-> "idle"]
  /\ oupdated = [o \in OrderReqs |-> 0]
  /\ ostatus = [o \in OrderReqs |-> 0]
  /\ returned = << >>
  /\ mailResult = [r \in Reqs |-> NoMail]
  /\ putCount = 0
  /\ view = NoView

\* The state after start-up, before any request: the stored catalog and
\* users, no counter record, no order.
InitProgram ==
  /\ InitIdle
  /\ sequence = {}
  /\ orders = << >>
  /\ clock = 0

Init == InitProgram /\ calc = NoCalc

(***************************************************************************)
(* The Sequence Allocator: the two findOneAndUpdate calls of               *)
(* getNextOrderId.  Neither is given a session, so both act on the         *)
(* committed store at once, whatever transaction the caller is in.         *)
(***************************************************************************)
CounterValue == IF sequence = {} THEN 0 ELSE (CHOOSE s \in sequence : TRUE).value

\* The update without {new: true}: the record as it was before the $inc.
IncSequenceOld == [name |-> "order-id", value |-> CounterValue]

\* findOneAndUpdate({name}, {$inc: {value: 1}}, {new, upsert, setDefaultsOnInsert}):
\* the record after the update.  On insert the $inc path takes no schema
\* default, so the new record holds 0 + 1.
IncSequence == [name |-> "order-id", value |-> CounterValue + 1]

\* findOneAndUpdate({name}, {$set: {value: 30}}, {new})
SetSequence == [name |-> "order-id", value |-> OrderIdFloor]

\* The correction applied below the seed of 29 only.
NeedsCorrectionBelowSeed(value) == value < OrderIdFloor - 1

\* updated.value < 30
NeedsCorrection(value) == value < OrderIdFloor

(***************************************************************************)
(* POST /invoices.                                                         *)
(***************************************************************************)
\* sanitizedItems of request r
Items(r) == sanitizeItems(body[r].products).items

\* The id codes that getNextOrderId gave to the runs of r's callback that
\* were discarded, the current run included (history).
DiscardedIds(r) ==
  failedAt[r].ids \cup (IF tx[r].nextId # 0 THEN {tx[r].nextId} ELSE {})

\* The catch block: the transaction (if any) is aborted, its writes are
\* discarded, and the response carries err.status, or 500 without one.
\* The error of the transaction swallowed: the handler goes on to the
\* notification and the 201.
FailWithSwallowed(r, code, at, names) ==
  /\ status' = status
  /\ tx' = tx
  /\ failedAt' = [failedAt EXCEPT ![r] =
                   [at |-> at, wrote |-> tx[r].written # {}, names |-> names,
                    ids |-> DiscardedIds(r)]]
  /\ pc' = [pc EXCEPT ![r] = "respond"]

FailWith(r, code, at, names) ==
  /\ status' = [status EXCEPT ![r] = code]
  /\ tx' = [tx EXCEPT ![r] = NoTx]
  /\ failedAt' = [failedAt EXCEPT ![r] =
                   [at |-> at, wrote |-> tx[r].written # {}, names |-> names,
                    ids |-> DiscardedIds(r)]]
  /\ pc' = [pc EXCEPT ![r] = "finally"]

Fail(r, code) == FailWith(r, code, "tx", << >>)

\* A TransientTransactionError inside withTransaction: the transaction is
\* aborted and the callback is run again, unless the driver's time limit has
\* passed, when the error reaches the catch block.
TransientError(r) ==
  \/ /\ attempts[r] < MaxAttempts
     /\ tx' = [tx EXCEPT ![r] = NoTx]
     /\ pc' = [pc EXCEPT ![r] = "txBegin"]
     /\ failedAt' = [failedAt EXCEPT ![r].ids = DiscardedIds(r)]
     /\ UNCHANGED status
  \/ Fail(r, 500)

\* Lines 248-286: validation, buyer resolution, startSession.
\* A userId that is no ObjectId makes User.findById throw a CastError.
StartWith(r, bodies) ==
  /\ pc[r] = "idle"
  /\ \E b \in bodies :
       LET san == sanitizeItems(b.products)
           code == CASE san.error # "" -> 400
                     [] b.userId # "" /\ ~ObjectIdIsValid(b.userId) -> 500
                     [] b.userId # "" /\ b.userId \notin Users -> 404
                     [] b.userId = "" /\ b.user # "full" -> 400
                     [] OTHER -> 0
       IN /\ body' = [body EXCEPT ![r] = b]
          /\ status' = [status EXCEPT ![r] = code]
          /\ pc' = [pc EXCEPT ![r] = IF code = 0 THEN "txBegin" ELSE "done"]
          /\ session' = [session EXCEPT ![r] = IF code = 0 THEN "open" ELSE "none"]
          /\ failedAt' = [failedAt EXCEPT ![r] = IF code = 0 THEN NotFailed
                                                 ELSE [at |-> "idle", wrote |-> FALSE,
                                                       names |-> << >>, ids |-> {}]]
  /\ UNCHANGED <<aside, store, attempts, sendMailCalls, tx, ordersRoute, returned>>

Start(r) == StartWith(r, Bodies)

\* The message with the first missing id only.
MissingProductsFirstOnly(items, productDocs) ==
  LET missing == {i \in 1..Len(items) : items[i].productId \notin productDocs}
  IN IF missing = {} THEN << >>
     ELSE <<items[CHOOSE i \in missing : \A j \in missing : i <= j].productId>>

\* Lines 298-300: the ids of the lines that have no document in productMap,
\* in input order.
MissingProducts(items, productDocs) ==
  LET RECURSIVE Filter(_)
      Filter(its) ==
        IF its = << >> THEN << >>
        ELSE (IF Head(its).productId \in productDocs THEN << >> ELSE <<Head(its).productId>>)
             \o Filter(Tail(its))
  IN Filter(items)

\* Lines 292-307: the callback starts; Product.find({_id: {$in: ids}}) takes
\* the transaction's snapshot and returns one document per distinct stored id.
TxBegin(r) ==
  /\ pc[r] = "txBegin"
  /\ attempts' = [attempts EXCEPT ![r] = @ + 1]
  /\ LET ids == {Items(r)[i].productId : i \in 1..Len(Items(r))}
         productDocs == ids \cap Products
     IN IF Cardinality(productDocs) # Len(Items(r))
        THEN FailWith(r, 404, "tx", MissingProducts(Items(r), productDocs))
        ELSE /\ tx' = [tx EXCEPT ![r] = [NoTx EXCEPT !.startTs = clock, !.docs = stock, !.i = 1]]
             /\ pc' = [pc EXCEPT ![r] = "txLine"]
             /\ UNCHANGED <<status, failedAt>>
  /\ UNCHANGED <<aside, store, body, session, sendMailCalls, ordersRoute, returned>>

\* The check with the quantity left out: only an empty stock is refused.
InsufficientStockIgnoresQuantity(available, quantity) == available <= 0

\* available < item.quantity
InsufficientStock(available, quantity) == available < quantity

\* The decrement by one unit whatever the quantity.
DecrementedStockByOne(available, quantity) == available - 1

\* product.stock = available - item.quantity
DecrementedStock(available, quantity) == available - quantity

\* A write of the transaction of r to a document last committed at time
\* `written`, which the transactions in `others` may have written too: it
\* conflicts when the document changed after the snapshot or another open
\* transaction holds an uncommitted write to it.
WriteConflict(r, written, others) == written > tx[r].startTs \/ others # {}

\* product.save() without the session: the write reaches the store at once.
SaveProductNoSession(r, p, newStock) ==
  [written |-> tx[r].written, stock |-> [stock EXCEPT ![p] = newStock]]

\* product.save({ session }): the write stays in the transaction.
\* Gives the transaction's written set and the committed stock.
SaveProduct(r, p, newStock) ==
  [written |-> tx[r].written \cup {p}, stock |-> stock]

\* The loop taking the lines from the last to the first.
CurrentItemReversed(r) == Items(r)[Len(Items(r)) + 1 - tx[r].i]

\* Line 309, for (const item of sanitizedItems): the line of iteration tx[r].i.
CurrentItem(r) == Items(r)[tx[r].i]

\* The order built and saved after the first line.
AfterLineSavesEarly(r) == "txAlloc"

\* Lines 309-343: the loop goes on to the next line, and after the last one
\* the callback builds and saves the order.
AfterLine(r) == IF tx[r].i = Len(Items(r)) THEN "txAlloc" ELSE "txLine"

\* Lines 309-341: one iteration of the stock loop.  A document whose stock
\* is set to the value it had is not modified, and its save writes nothing.
TxLine(r) ==
  /\ pc[r] = "txLine"
  /\ LET item == CurrentItem(r)
         p == item.productId
         available == tx[r].docs[p]
         newStock == DecrementedStock(available, item.quantity)
         line == [productId |-> p, quantity |-> item.quantity,
                  unitPrice |-> priceAfterDiscount(p),
                  lineTotal |-> lineTotalOf(p, item.quantity)]
         saved == SaveProduct(r, p, newStock)
     IN IF p \notin Products
        THEN FailWith(r, 404, "tx", <<p>>) /\ UNCHANGED stock
        ELSE IF InsufficientStock(available, item.quantity)
        THEN FailWith(r, 400, "tx", <<p>>) /\ UNCHANGED stock
        ELSE IF newStock # available
                /\ WriteConflict(r, lastWrite[p], {q \in Reqs \ {r} : p \in tx[q].written})
        THEN TransientError(r) /\ UNCHANGED stock
        ELSE /\ tx' = [tx EXCEPT ![r].docs[p] = newStock,
                                 ![r].written = IF newStock # available THEN saved.written ELSE @,
                                 ![r].invoiceItems = Append(@, line),
                                 ![r].subtotal = roundMoney(@ + line.lineTotal, 1),
                                 ![r].i = @ + 1]
             /\ stock' = IF newStock # available THEN saved.stock ELSE stock
             /\ pc' = [pc EXCEPT ![r] = AfterLine(r)]
             /\ UNCHANGED <<status, failedAt>>
  /\ UNCHANGED <<aside, lastWrite, sequence, orders, users, userLastWrite, clock,
                 body, session, attempts, sendMailCalls, ordersRoute, returned>>

\* The Order document given the stored user whatever the buyer.
NewOrderOfStoredUser(r) ==
  [_id |-> <<r, attempts[r]>>,
   id |-> tx[r].nextId,
   userId |-> "u1",
   source |-> "invoices",
   items |-> tx[r].invoiceItems,
   totales |-> totalsForUi(tx[r].subtotal, useTaxRate(body[r]),
                           calculateShippingCost(body[r].costo, Items(r)),
                           discountValue(body[r])),
   estado |-> "confirmado",
   ts |-> 0]

\* Lines 343-386: the totals and the Order document of this run of the
\* callback.  The stored id is String(nextId); the model keeps the number.
NewOrder(r) ==
  [_id |-> <<r, attempts[r]>>,
   id |-> tx[r].nextId,
   userId |-> body[r].userId,
   source |-> "invoices",
   items |-> tx[r].invoiceItems,
   totales |-> totalsForUi(tx[r].subtotal, useTaxRate(body[r]),
                           calculateShippingCost(body[r].costo, Items(r)),
                           discountValue(body[r])),
   estado |-> "confirmado",
   ts |-> 0]

\* orderSchema.pre('save') -> getNextOrderId, first findOneAndUpdate.
TxAllocInc(r) ==
  /\ pc[r] = "txAlloc"
  /\ CounterValue < MaxSeqValue
  /\ sequence' = {IncSequence}
  /\ IF NeedsCorrection(IncSequence.value)
     THEN /\ tx' = [tx EXCEPT ![r].updated = IncSequence.value]
          /\ pc' = [pc EXCEPT ![r] = "txCorrect"]
          /\ UNCHANGED returned
     ELSE /\ tx' = [tx EXCEPT ![r].updated = IncSequence.value, ![r].nextId = IncSequence.value]
          /\ pc' = [pc EXCEPT ![r] = "txOrderSave"]
          /\ returned' = Append(returned, IncSequence.value)
  /\ UNCHANGED <<aside, stock, lastWrite, orders, users, userLastWrite, clock,
                 body, status, session, attempts, sendMailCalls, failedAt, ordersRoute>>

\* getNextOrderId, second findOneAndUpdate; returns corrected.value.
TxAllocCorrect(r) ==
  /\ pc[r] = "txCorrect"
  /\ sequence' = {SetSequence}
  /\ tx' = [tx EXCEPT ![r].nextId = SetSequence.value]
  /\ pc' = [pc EXCEPT ![r] = "txOrderSave"]
  /\ returned' = Append(returned, SetSequence.value)
  /\ UNCHANGED <<aside, stock, lastWrite, orders, users, userLastWrite, clock,
                 body, status, session, attempts, sendMailCalls, failedAt, ordersRoute>>

\* The unique index on Order.id: the committed orders and the open
\* transactions (other than r) that hold the key.
\* The collection without the unique index: no stored order holds the key.
CommittedWithIdUnindexed(id) == {}

CommittedWithId(id) == {k \in 1..Len(orders) : orders[k].id = id}
PendingWithId(r, id) == {q \in Reqs \ {r} : tx[q].pending /\ tx[q].order[1].id = id}

\* orderDoc.save() without the session: the insert reaches the store at once.
SaveOrderNoSession(r, doc) ==
  [pending |-> FALSE, orders |-> Append(orders, [doc EXCEPT !.ts = clock + 1])]

\* orderDoc.save({ session }): the insert stays in the transaction.
\* Gives whether the transaction holds the insert, and the committed collection.
SaveOrder(r, doc) == [pending |-> TRUE, orders |-> orders]

\* Line 388, after the pre-save hook: the insert, and with no attached user
\* the rest of the callback (line 405).  A key held by an open
\* transaction or committed after the snapshot is a write conflict; a key
\* visible in the snapshot is a duplicate-key error (no status: 500).
TxOrderSave(r) ==
  /\ pc[r] = "txOrderSave"
  /\ LET doc == NewOrder(r)
         dup == CommittedWithId(doc.id)
         saved == SaveOrder(r, doc)
     IN IF PendingWithId(r, doc.id) # {}
           \/ \E k \in dup : WriteConflict(r, orders[k].ts, {})
        THEN TransientError(r) /\ UNCHANGED orders
        ELSE IF dup # {}
        THEN Fail(r, 500) /\ UNCHANGED orders
        ELSE /\ tx' = [tx EXCEPT ![r].order = <<doc>>, ![r].pending = saved.pending,
                                 ![r].committedOrder = IF body[r].userId # "" THEN << >>
                                                       ELSE <<doc>>]
             /\ orders' = saved.orders
             /\ pc' = [pc EXCEPT ![r] = IF body[r].userId # "" THEN "txUser" ELSE "txCommit"]
             /\ UNCHANGED <<status, failedAt>>
  /\ UNCHANGED <<aside, stock, lastWrite, sequence, users, userLastWrite, clock,
                 body, session, attempts, sendMailCalls, ordersRoute, returned>>

\* The user update that leaves the cart as it was.
UpdatedUserKeepsCart(u, order) ==
  [id |-> u, cart |-> users[u].cart,
   orders |-> Append(users[u].orders, [orderId |-> order._id, codigo |-> order.id])]

\* Lines 393-401: userForUpdate.orders.push({orderId, codigo, ...}) and
\* userForUpdate.cart = [].
UpdatedUser(u, order) ==
  [id |-> u, cart |-> << >>,
   orders |-> Append(users[u].orders, [orderId |-> order._id, codigo |-> order.id])]

\* Lines 390-405: the buyer is read in the session, the order reference is
\* pushed, the cart is emptied and the user is saved in the session; then
\* committedOrder = orderDoc.
TxUser(r) ==
  /\ pc[r] = "txUser"
  /\ LET u == body[r].userId
     IN IF WriteConflict(r, userLastWrite[u],
                         {q \in Reqs \ {r} : tx[q].user # << >> /\ tx[q].user[1].id = u})
        THEN TransientError(r)
        ELSE /\ tx' = [tx EXCEPT ![r].user = <<UpdatedUser(u, tx[r].order[1])>>,
                                 ![r].committedOrder = tx[r].order]
             /\ pc' = [pc EXCEPT ![r] = "txCommit"]
             /\ UNCHANGED <<status, failedAt>>
  /\ UNCHANGED <<aside, store, body, session, attempts, sendMailCalls, ordersRoute, returned>>

\* End of the callback: withTransaction commits, and every write of the
\* transaction reaches the store at once.
TxCommit(r) ==
  /\ pc[r] = "txCommit"
  /\ clock' = clock + 1
  /\ stock' = [p \in Products |-> IF p \in tx[r].written THEN tx[r].docs[p] ELSE stock[p]]
  /\ lastWrite' = [p \in Products |-> IF p \in tx[r].written THEN clock + 1 ELSE lastWrite[p]]
  /\ orders' = IF tx[r].pending
                THEN Append(orders, [tx[r].order[1] EXCEPT !.ts = clock + 1])
                ELSE orders
  /\ users' = [u \in Users |->
                 IF tx[r].user # << >> /\ tx[r].user[1].id = u
                 THEN [cart |-> tx[r].user[1].cart, orders |-> tx[r].user[1].orders]
                 ELSE users[u]]
  /\ userLastWrite' = [u \in Users |->
                 IF tx[r].user # << >> /\ tx[r].user[1].id = u THEN clock + 1
                 ELSE userLastWrite[u]]
  /\ tx' = [tx EXCEPT ![r] = [NoTx EXCEPT !.committedOrder = tx[r].committedOrder]]
  /\ pc' = [pc EXCEPT ![r] = "respond"]
  /\ UNCHANGED <<aside, sequence, body, status, session, attempts, sendMailCalls, failedAt,
                 ordersRoute, returned>>

\* invoiceUser.email: a stored user has an email (required by the schema),
\* an inline buyer was accepted with one.
HasEmail(b) == b.userId # "" \/ b.user = "full"

\* Lines 439-463: when invoiceUser.email && committedOrder, the detached
\* function runs up to its call of sendMail for the order; then the 201.
Respond(r) ==
  /\ pc[r] = "respond"
  /\ IF HasEmail(body[r]) /\ tx[r].committedOrder # << >>
     THEN /\ sendMailCalls' = [sendMailCalls EXCEPT ![r] = @ + 1]
          /\ mailResult' = [mailResult EXCEPT ![r] =
                              [st |-> "pending", order |-> tx[r].committedOrder[1]._id]]
     ELSE UNCHANGED <<sendMailCalls, mailResult>>
  /\ status' = [status EXCEPT ![r] = 201]
  /\ tx' = [tx EXCEPT ![r] = NoTx]
  /\ pc' = [pc EXCEPT ![r] = "finally"]
  /\ UNCHANGED <<putCount, view, store, body, session, attempts, failedAt, ordersRoute, returned>>

\* The finally block without the call of endSession.
FinallyLeavesSession(r) ==
  /\ pc[r] = "finally"
  /\ session' = session
  /\ pc' = [pc EXCEPT ![r] = "done"]
  /\ UNCHANGED <<aside, store, body, status, attempts, sendMailCalls, tx, failedAt,
                 ordersRoute, returned>>

\* Lines 468-476: session.endSession().
Finally(r) ==
  /\ pc[r] = "finally"
  /\ session' = [session EXCEPT ![r] = "ended"]
  /\ pc' = [pc EXCEPT ![r] = "done"]
  /\ UNCHANGED <<aside, store, body, status, attempts, sendMailCalls, tx, failedAt,
                 ordersRoute, returned>>

\* A storage error (no status, no transient label) in any operation of the
\* transaction, the commit included.
TxnPcs == {"txBegin", "txLine", "txAlloc", "txCorrect", "txOrderSave", "txUser", "txCommit"}

StorageFailure(r) ==
  /\ pc[r] \in TxnPcs
  /\ FailWith(r, 500, "storage", << >>)
  /\ UNCHANGED <<aside, store, body, session, attempts, sendMailCalls, ordersRoute, returned>>

(***************************************************************************)
(* POST /orders (part_002): new Order(...).save() outside any transaction. *)
(***************************************************************************)
\* Lines 716-731 and the first findOneAndUpdate of the pre-save hook.
OrdersPost(o) ==
  /\ opc[o] = "idle"
  /\ \E userId \in {"", "u1", "bad!"} :
       IF userId # "" /\ ~ObjectIdIsValid(userId)
       THEN /\ ostatus' = [ostatus EXCEPT ![o] = 400]
            /\ opc' = [opc EXCEPT ![o] = "done"]
            /\ UNCHANGED <<sequence, oupdated, returned>>
       ELSE /\ CounterValue < MaxSeqValue
            /\ sequence' = {IncSequence}
            /\ oupdated' = [oupdated EXCEPT ![o] = IncSequence.value]
            /\ opc' = [opc EXCEPT ![o] = IF NeedsCorrection(IncSequence.value)
                                          THEN "correct" ELSE "insert"]
            /\ returned' = IF NeedsCorrection(IncSequence.value) THEN returned
                           ELSE Append(returned, IncSequence.value)
            /\ UNCHANGED ostatus
  /\ UNCHANGED <<aside, stock, lastWrite, orders, users, userLastWrite, clock, checkout, script, calc>>

\* The second findOneAndUpdate of the pre-save hook.
OrdersCorrect(o) ==
  /\ opc[o] = "correct"
  /\ sequence' = {SetSequence}
  /\ oupdated' = [oupdated EXCEPT ![o] = SetSequence.value]
  /\ opc' = [opc EXCEPT ![o] = "insert"]
  /\ returned' = Append(returned, SetSequence.value)
  /\ UNCHANGED <<aside, stock, lastWrite, orders, users, userLastWrite, clock, checkout, ostatus,
                 script, calc>>

\* The insert; it waits while an open transaction holds the same id, and a
\* duplicate id is answered 400 by the catch block.
OrdersInsert(o) ==
  /\ opc[o] = "insert"
  /\ PendingWithId(o, oupdated[o]) = {}
  /\ IF CommittedWithId(oupdated[o]) # {}
     THEN /\ ostatus' = [ostatus EXCEPT ![o] = 400]
          /\ UNCHANGED <<orders, clock>>
     ELSE /\ orders' = Append(orders,
                [_id |-> <<o, 1>>, id |-> oupdated[o], userId |-> "", source |-> "orders",
                 items |-> << >>, totales |-> totalsForUi(0, 0, 0, 0),
                 estado |-> "pendiente", ts |-> clock + 1])
          /\ clock' = clock + 1
          /\ ostatus' = [ostatus EXCEPT ![o] = 201]
  /\ opc' = [opc EXCEPT ![o] = "done"]
  /\ UNCHANGED <<aside, stock, lastWrite, sequence, users, userLastWrite, checkout, oupdated, returned,
                 script, calc>>

(***************************************************************************)
(* The detached notification after sendMail has been called.               *)
(***************************************************************************)
\* The outcome of sendMail surfaced to the caller: an exception turns the
\* response into a 500.
AfterMailSurfaced(r, outcome) ==
  [status |-> IF outcome = "threw" THEN 500 ELSE status[r],
   sendMailCalls |-> sendMailCalls[r]]

\* Lines 446-456: a result with ok = false is logged, an exception is caught
\* and logged; the response and the number of calls stay as they are.
AfterMail(r, outcome) == [status |-> status[r], sendMailCalls |-> sendMailCalls[r]]

\* sendMail settles: it resolves with ok, resolves with ok = false, or
\* throws.  A call that never completes takes no step.
MailSettle(r) ==
  /\ mailResult[r].st = "pending"
  /\ \E outcome \in {"ok", "failed", "threw"} :
       /\ mailResult' = [mailResult EXCEPT ![r].st = outcome]
       /\ status' = [status EXCEPT ![r] = AfterMail(r, outcome).status]
       /\ sendMailCalls' = [sendMailCalls EXCEPT ![r] = AfterMail(r, outcome).sendMailCalls]
  /\ UNCHANGED <<putCount, view, store, pc, body, session, attempts, tx, failedAt,
                 ordersRoute, returned>>

(***************************************************************************)
(* PUT /products/:identifier (part_002), outside any transaction.          *)
(* The stock field of the body is a JS value in halves; Undef stands for a *)
(* body with other updatable fields and no stock field.                    *)
(***************************************************************************)
StockInputs == {Undef, Null, Str, Num(-2), Num(1), Num(2 * MaxStock)}

\* The check of the stock field without the test of its sign.
StockUpdateErrorAnySign(value) ==
  LET stockValue == Number(value) IN ~(IsFinite(stockValue) /\ stockValue.v % 2 = 0)

\* Lines 434-435: !Number.isInteger(stock) || stock < 0
StockUpdateError(value) ==
  LET stockValue == Number(value)
  IN ~(IsFinite(stockValue) /\ stockValue.v % 2 = 0) \/ stockValue.v < 0

\* Lines 408-454.  An unknown product is answered 404 and an invalid stock
\* 400, with no write.  Product.findByIdAndUpdate waits while an open
\* transaction holds a write to the document.
PutProduct ==
  /\ putCount < MaxPuts
  /\ putCount' = putCount + 1
  /\ \E p \in Products \cup {"px"}, value \in StockInputs :
       IF p \notin Products \/ (value # Undef /\ StockUpdateError(value))
       THEN UNCHANGED <<stock, lastWrite, clock>>
       ELSE /\ {q \in Reqs : p \in tx[q].written} = {}
            /\ stock' = IF value = Undef THEN stock
                        ELSE [stock EXCEPT ![p] = Number(value).v \div 2]
            /\ lastWrite' = [lastWrite EXCEPT ![p] = clock + 1]
            /\ clock' = clock + 1
  /\ UNCHANGED <<mailResult, view, sequence, orders, users, userLastWrite, checkout,
                 ordersRoute, returned>>

(***************************************************************************)
(* The Invoice Renderer.  A text is a sequence of characters; in a         *)
(* rendered document "#" stands for the markup of the template and         *)
(* "&amp;", "&lt;", "&gt;", "&quot;", "&#39;" for the entities.            *)
(* A stored order of POST /orders has the resumen of the request body:     *)
(* invoiceNumber, cliente.nombre, entrega.direccion, pago.referencia and   *)
(* the list productos, whose entries are null or objects with nombre and   *)
(* cantidad (a number, given by its digits, or a text).                    *)
(***************************************************************************)
Texts == {<< >>, <<"a">>, <<"<", "a", ">">>, <<"&", "\"", "'">>}

NullEntry == [t |-> "null", nombre |-> << >>, cantidad |-> [t |-> "text", v |-> << >>]]

ProductEntries ==
  {NullEntry}
  \cup {[t |-> "obj", nombre |-> n, cantidad |-> c] :
          n \in Texts,
          c \in {[t |-> "num", v |-> <<"2">>]} \cup {[t |-> "text", v |-> x] : x \in Texts}}

Resumenes ==
  {[invoiceNumber |-> f, cliente |-> [nombre |-> n], entrega |-> [direccion |-> d],
    pago |-> [referencia |-> g], productos |-> ps] :
     f \in Texts, n \in Texts, d \in Texts, g \in Texts,
     ps \in {<< >>} \cup {<<e>> : e \in ProductEntries}}

\* The order that POST /orders stores for a body with this resumen.
StoredOrder(o, resumen) ==
  [_id |-> <<o, 1>>, id |-> OrderIdFloor, userId |-> "", source |-> "orders",
   items |-> << >>, totales |-> totalsForUi(0, 0, 0, 0), estado |-> "pendiente",
   ts |-> 1, resumen |-> resumen]

\* escapeHtml: '' for a falsy value, else each of & < > " ' replaced.
escapeChar(m) ==
  CASE m = "&" -> "&amp;"
    [] m = "<" -> "&lt;"
    [] m = ">" -> "&gt;"
    [] m = "\"" -> "&quot;"
    [] m = "'" -> "&#39;"
    [] OTHER -> m

escapeHtml(str) == [i \in 1..Len(str) |-> escapeChar(str[i])]

\* a || b on texts
OrText(a, b) == IF a = << >> THEN b ELSE a

\* normalizeProducts, first branch: reading a property of a null entry throws.
normalizeProducts(order) ==
  LET productos == order.resumen.productos IN
  [threw |-> \E i \in 1..Len(productos) : productos[i].t = "null",
   list |-> [i \in 1..Len(productos) |->
               [nombre |-> OrText(productos[i].nombre, <<"Producto">>),
                cantidad |-> OrText(productos[i].cantidad.v, <<"0">>)]]]

\* Lines 145-152: the rows; item.cantidad is interpolated as it is.
RECURSIVE productRows(_)
productRows(productos) ==
  IF productos = << >> THEN << >>
  ELSE <<"#">> \o escapeHtml(Head(productos).nombre) \o <<"#">> \o Head(productos).cantidad
       \o <<"#", "$", "#">> \o productRows(Tail(productos))

\* renderInvoiceHtml(order); the amounts are numbers printed by toFixed(2).
renderInvoiceHtml(order) ==
  LET productos == normalizeProducts(order)
      resumen == order.resumen
      numeroFactura == OrText(resumen.invoiceNumber, <<"3", "0">>)
  IN [threw |-> productos.threw,
      html |-> IF productos.threw THEN << >>
               ELSE <<"#">> \o escapeHtml(numeroFactura)
                    \o <<"#">> \o escapeHtml(numeroFactura)
                    \o <<"#">> \o escapeHtml(OrText(resumen.cliente.nombre, <<"N/D">>))
                    \o <<"#">> \o OrText(productRows(productos.list), <<"#">>)
                    \o <<"#", "$", "#">>
                    \o escapeHtml(OrText(resumen.entrega.direccion, <<"N/D">>))
                    \o <<"#">> \o escapeHtml(OrText(resumen.pago.referencia, <<"N/D">>))
                    \o <<"#">>]

\* Order.findById(id).lean()
FindOrder(id) == {k \in 1..Len(orders) : orders[k]._id[1] = id}

\* GET /invoices/:id, lines 479-496.  The lookup may fail in the storage.
GetInvoice ==
  /\ view.status = 0
  /\ \E id \in {"bad!", "ux"} \cup OrderReqs, fails \in BOOLEAN :
       view' =
         IF ~ObjectIdIsValid(id)
         THEN [id |-> id, status |-> 400, html |-> << >>, threw |-> ""]
         ELSE IF fails
         THEN [id |-> id, status |-> 500, html |-> << >>, threw |-> "storage"]
         ELSE IF FindOrder(id) = {}
         THEN [id |-> id, status |-> 404, html |-> << >>, threw |-> ""]
         ELSE LET out == renderInvoiceHtml(orders[CHOOSE k \in FindOrder(id) : TRUE])
              IN IF out.threw
                 THEN [id |-> id, status |-> 500, html |-> << >>, threw |-> "render"]
                 ELSE [id |-> id, status |-> 200, html |-> out.html, threw |-> ""]
  /\ UNCHANGED <<mailResult, putCount, store, checkout, ordersRoute, returned>>

\* The checkout requests.
Next ==
  \/ \E r \in Reqs : Start(r)
  \/ \E r \in Reqs : TxBegin(r)
  \/ \E r \in Reqs : TxLine(r)
  \/ \E r \in Reqs : TxAllocInc(r)
  \/ \E r \in Reqs : TxAllocCorrect(r)
  \/ \E r \in Reqs : TxOrderSave(r)
  \/ \E r \in Reqs : TxUser(r)
  \/ \E r \in Reqs : TxCommit(r)
  \/ \E r \in Reqs : Respond(r)
  \/ \E r \in Reqs : Finally(r)
  \/ \E r \in Reqs : StorageFailure(r)

Spec == Init /\ [][Next]_vars

\* The checkout requests, with two well-formed bodies, next to POST /orders.
StartSimple(r) == StartWith(r, SimpleBodies)

NextOrders ==
  \/ \E r \in Reqs : StartSimple(r)
  \/ \E r \in Reqs : TxBegin(r)
  \/ \E r \in Reqs : TxLine(r)
  \/ \E r \in Reqs : TxAllocInc(r)
  \/ \E r \in Reqs : TxAllocCorrect(r)
  \/ \E r \in Reqs : TxOrderSave(r)
  \/ \E r \in Reqs : TxUser(r)
  \/ \E r \in Reqs : TxCommit(r)
  \/ \E r \in Reqs : Respond(r)
  \/ \E r \in Reqs : Finally(r)
  \/ \E r \in Reqs : StorageFailure(r)
  \/ \E o \in OrderReqs : OrdersPost(o)
  \/ \E o \in OrderReqs : OrdersCorrect(o)
  \/ \E o \in OrderReqs : OrdersInsert(o)

SpecOrders == Init /\ [][NextOrders]_vars

\* The checkout requests under the scheduling of the event loop.  Once a
\* request has arrived, every continuation of its handler runs when the
\* storage operation it awaits settles, and withTransaction stops re-running
\* the callback when its time limit has passed (MaxAttempts): the steps of
\* the handler of each request are weakly fair.  The arrival of a request and
\* a storage error are not.
StartLive(r) == StartWith(r, LiveBodies)

Handler(r) ==
  \/ TxBegin(r)
  \/ TxLine(r)
  \/ TxAllocInc(r)
  \/ TxAllocCorrect(r)
  \/ TxOrderSave(r)
  \/ TxUser(r)
  \/ TxCommit(r)
  \/ Respond(r)
  \/ Finally(r)

NextLive ==
  \/ \E r \in Reqs : StartLive(r)
  \/ \E r \in Reqs : Handler(r)
  \/ \E r \in Reqs : StorageFailure(r)

SpecLive == Init /\ [][NextLive]_vars /\ \A r \in Reqs : WF_vars(Handler(r))

\* The checkout requests, with two well-formed bodies, and the outcomes of
\* their notifications.
NextMail ==
  \/ \E r \in Reqs : StartSimple(r)
  \/ \E r \in Reqs : TxBegin(r)
  \/ \E r \in Reqs : TxLine(r)
  \/ \E r \in Reqs : TxAllocInc(r)
  \/ \E r \in Reqs : TxAllocCorrect(r)
  \/ \E r \in Reqs : TxOrderSave(r)
  \/ \E r \in Reqs : TxUser(r)
  \/ \E r \in Reqs : TxCommit(r)
  \/ \E r \in Reqs : Respond(r)
  \/ \E r \in Reqs : Finally(r)
  \/ \E r \in Reqs : StorageFailure(r)
  \/ \E r \in Reqs : MailSettle(r)

SpecMail == Init /\ [][NextMail]_vars

\* The checkout requests, with two well-formed bodies, next to
\* PUT /products/:identifier.
NextCatalog ==
  \/ \E r \in Reqs : StartSimple(r)
  \/ \E r \in Reqs : TxBegin(r)
  \/ \E r \in Reqs : TxLine(r)
  \/ \E r \in Reqs : TxAllocInc(r)
  \/ \E r \in Reqs : TxAllocCorrect(r)
  \/ \E r \in Reqs : TxOrderSave(r)
  \/ \E r \in Reqs : TxUser(r)
  \/ \E r \in Reqs : TxCommit(r)
  \/ \E r \in Reqs : Respond(r)
  \/ \E r \in Reqs : Finally(r)
  \/ \E r \in Reqs : StorageFailure(r)
  \/ PutProduct

SpecCatalog == Init /\ [][NextCatalog]_vars

\* GET /invoices/:id on a store that holds one order made by POST /orders.
InitRender ==
  /\ InitIdle
  /\ calc = NoCalc
  /\ sequence = {[name |-> "order-id", value |-> OrderIdFloor]}
  /\ clock = 1
  /\ \E resumen \in Resumenes : orders = <<StoredOrder("o1", resumen)>>

NextRender == GetInvoice

SpecRender == InitRender /\ [][NextRender]_vars

\* The callers of getNextOrderId of SpecOrders on a store whose counter
\* record is absent, below the seed, just below the floor, the seed, or above.
SeedValues == {5, OrderIdFloor - 2, OrderIdFloor - 1, OrderIdFloor + 1}

InitCounter ==
  /\ InitIdle
  /\ calc = NoCalc
  /\ orders = << >>
  /\ clock = 0
  /\ sequence \in {{}} \cup {{[name |-> "order-id", value |-> v]} : v \in SeedValues}

SpecCounter == InitCounter /\ [][NextOrders]_vars

(***************************************************************************)
(* getNextOrderId called by one caller, each call after the one before has *)
(* returned.                                                               *)
(***************************************************************************)
ScriptInc ==
  /\ script.pc = "idle"
  /\ Len(returned) < MaxSeqCalls
  /\ sequence' = {IncSequence}
  /\ IF NeedsCorrection(IncSequence.value)
     THEN /\ script' = [pc |-> "correct", updated |-> IncSequence.value]
          /\ UNCHANGED returned
     ELSE /\ script' = [pc |-> "idle", updated |-> IncSequence.value]
          /\ returned' = Append(returned, IncSequence.value)
  /\ UNCHANGED <<aside, stock, lastWrite, orders, users, userLastWrite, clock, checkout,
                 opc, oupdated, ostatus, calc>>

ScriptCorrect ==
  /\ script.pc = "correct"
  /\ sequence' = {SetSequence}
  /\ script' = [script EXCEPT !.pc = "idle"]
  /\ returned' = Append(returned, SetSequence.value)
  /\ UNCHANGED <<aside, stock, lastWrite, orders, users, userLastWrite, clock, checkout,
                 opc, oupdated, ostatus, calc>>

NextSeq == ScriptInc \/ ScriptCorrect

SpecSeq == Init /\ [][NextSeq]_vars

(***************************************************************************)
(* calculateShippingCost applied to one drawn input.                       *)
(***************************************************************************)
ShippingSources == {Undef, Null, Str, Num(-1), Num(0), Num(1235), Num(25004)}

InitPricing ==
  /\ InitProgram
  /\ \E costo \in ShippingSources, a \in 0..MaxUnits, b \in 0..1 :
       calc = [costo |-> costo,
               items |-> IF b = 0 THEN <<[productId |-> "p1", quantity |-> a]>>
                         ELSE <<[productId |-> "p1", quantity |-> a],
                                [productId |-> "p2", quantity |-> b]>>,
               result |-> 0, applied |-> FALSE]

ApplyShipping ==
  /\ ~calc.applied
  /\ calc' = [calc EXCEPT !.result = calculateShippingCost(calc.costo, calc.items),
                          !.applied = TRUE]
  /\ UNCHANGED <<aside, store, checkout, opc, oupdated, ostatus, returned, script>>

NextPricing == ApplyShipping

SpecPricing == InitPricing /\ [][NextPricing]_vars

(***************************************************************************)
(* Properties.                                                             *)
(***************************************************************************)
ErrorStatus == {400, 404, 500}

\* The transaction of r has committed.
Committed(r) == pc[r] = "respond" \/ status[r] = 201

RECURSIVE QtyIn(_, _)
QtyIn(items, p) ==
  IF items = << >> THEN 0
  ELSE (IF Head(items).productId = p THEN Head(items).quantity ELSE 0) + QtyIn(Tail(items), p)

\* Units of product p that request r asks for.
QtyOf(r, p) == QtyIn(Items(r), p)

RECURSIVE CommittedQty(_, _)
CommittedQty(rs, p) ==
  IF rs = {} THEN 0
  ELSE LET r == CHOOSE x \in rs : TRUE
       IN (IF Committed(r) THEN QtyOf(r, p) ELSE 0) + CommittedQty(rs \ {r}, p)

OrdersOf(r) == {k \in 1..Len(orders) : orders[k]._id[1] = r}
UserEntriesOf(r) ==
  {<<u, k>> \in Users \X (1..MaxAttempts + 2) :
     k <= Len(users[u].orders) /\ users[u].orders[k].orderId[1] = r}

\* C1 -- No oversell: the stock of every product is >= 0 in every state,
\* and two checkouts that ask for the same product with a combined quantity
\* above its stock never both commit.
C1_NoOversell ==
  /\ \A p \in Products : stock[p] >= 0
  /\ \A r1 \in Reqs : \A r2 \in Reqs \ {r1}, p \in Products :
       (QtyOf(r1, p) > 0 /\ QtyOf(r2, p) > 0 /\ QtyOf(r1, p) + QtyOf(r2, p) > InitStock[p])
       => ~(Committed(r1) /\ Committed(r2))

\* Two checkouts contended for p1 with a combined quantity above the stock:
\* one committed, the other re-ran its callback and was refused.
C1_Witness ==
  \E r1 \in Reqs : \E r2 \in Reqs \ {r1} :
    /\ status[r1] = 201 /\ status[r2] = 400 /\ attempts[r2] >= 2
    /\ QtyOf(r1, "p1") > 0 /\ QtyOf(r2, "p1") > 0
    /\ QtyOf(r1, "p1") + QtyOf(r2, "p1") > InitStock["p1"]

\* C2 -- Atomicity: an attempt that fails leaves nothing behind.  The stock
\* of every product is its initial value less the quantities of the committed
\* checkouts only, no order and no user entry of a failed request exists, and
\* a cart is emptied and a user's orders grow only by committed checkouts of
\* that user.
C2_Atomicity ==
  /\ \A p \in Products : stock[p] = InitStock[p] - CommittedQty(Reqs, p)
  /\ \A r \in Reqs : status[r] \in ErrorStatus => OrdersOf(r) = {} /\ UserEntriesOf(r) = {}
  /\ \A u \in Users :
       LET buyers == {r \in Reqs : Committed(r) /\ body[r].userId = u}
       IN /\ Len(users[u].orders) = Cardinality(buyers)
          /\ users[u].cart = (IF buyers = {} THEN InitCart ELSE << >>)

\* One request failed on a later line after decrementing stock, another
\* failed with a storage error after decrementing stock.
C2_Witness ==
  \E r1 \in Reqs : \E r2 \in Reqs \ {r1} :
    /\ status[r1] = 400 /\ failedAt[r1].wrote
    /\ status[r2] = 500 /\ failedAt[r2].wrote

\* C3 -- No two getNextOrderId calls return the same value.
C3_ReturnedDistinct ==
  \A i \in 1..Len(returned), j \in 1..Len(returned) : i # j => returned[i] # returned[j]

\* C4 -- Called one after another from an absent counter, getNextOrderId
\* returns 30 first and then values greater than all returned before.
C4_SequentialIncreasing ==
  /\ returned # << >> => returned[1] = 30
  /\ \A i \in 1..Len(returned), j \in 1..Len(returned) : i < j => returned[i] < returned[j]

C4_Witness == Len(returned) >= 3 /\ script.pc = "idle"

\* C5 -- The stored value of the 'order-id' counter never decreases.
C5_CounterMonotonic == [][CounterValue' >= CounterValue]_vars

\* C6 -- A checkout answered 201 has created exactly one Order, one answered
\* with an error none, also when the transaction callback was run again.
C6_OneOrderPerSuccess ==
  \A r \in Reqs :
    /\ status[r] = 201 => Cardinality(OrdersOf(r)) = 1
    /\ status[r] \in ErrorStatus => OrdersOf(r) = {}

\* A checkout answered 201 whose callback ran twice.
C6_Witness == \E r \in Reqs : status[r] = 201 /\ attempts[r] >= 2 /\ Cardinality(OrdersOf(r)) = 1

\* C7 -- The commit of a checkout lowers the stock of the product of each of
\* its lines by that line's quantity and leaves every other stock alone.
C7_CommitDecrements ==
  [][\A r \in Reqs :
       (pc[r] = "txCommit" /\ pc'[r] = "respond") =>
          /\ \A i \in 1..Len(Items(r)) :
               stock'[Items(r)[i].productId] = stock[Items(r)[i].productId] - Items(r)[i].quantity
          /\ \A p \in Products : QtyOf(r, p) = 0 => stock'[p] = stock[p]]_vars

\* A checkout of two lines has just committed after another one had.
C7_Witness ==
  \E r \in Reqs : \E q \in Reqs \ {r} :
    pc[r] = "respond" /\ Len(Items(r)) = 2 /\ status[q] = 201 /\ stock["p1"] = 0

\* C8 -- A checkout that names the same stored product in two entries, with
\* stock for both, is not refused as not found or out of stock.
C8_DuplicateLinesAccepted ==
  \A r \in Reqs :
    (/\ Len(Items(r)) = 2
     /\ Items(r)[1].productId = Items(r)[2].productId
     /\ Items(r)[1].productId \in Products
     /\ stock[Items(r)[1].productId] >= Items(r)[1].quantity + Items(r)[2].quantity)
    => status[r] \notin {400, 404}

\* C9 -- Without an explicit shipping cost calculateShippingCost returns
\* min(cap, base + max(0, totalUnits - 1) * perItemFee).
C9_DefaultShipping ==
  (calc.applied /\ calc.costo = Undef) =>
     calc.result = Min(MAX_SHIPPING_FEE,
                       BASE_SHIPPING_FEE
                         + Max(0, SumQuantity(calc.items) - 1) * PER_ITEM_SHIPPING_FEE)

RECURSIVE SumLineTotals(_)
SumLineTotals(items) ==
  IF items = << >> THEN 0 ELSE Head(items).lineTotal + SumLineTotals(Tail(items))

\* C10 -- In every order committed by checkout the total is
\* max(0, subtotal + iva + envio - discount) to the nearest cent, is >= 0,
\* and the subtotal is the sum of the lines' lineTotal.
C10_Totals ==
  \A k \in 1..Len(orders) :
    orders[k].source = "invoices" =>
      LET t == orders[k].totales
          exact == Max(0, t.subtotal + t.iva + t.envio - t.discount)
      IN /\ t.total % 10 = 0
         /\ t.total - exact <= 5 /\ exact - t.total < 5
         /\ t.total >= 0
         /\ t.subtotal = SumLineTotals(orders[k].items)

\* A committed order whose discount exceeds the rest, and one with a
\* positive total.
C10_Witness ==
  /\ \E k \in 1..Len(orders) :
       /\ orders[k].source = "invoices"
       /\ orders[k].totales.discount
            > orders[k].totales.subtotal + orders[k].totales.iva + orders[k].totales.envio
       /\ orders[k].totales.total = 0
  /\ \E k \in 1..Len(orders) : orders[k].source = "invoices" /\ orders[k].totales.total > 0

\* m mills is the amount n/d mills rounded to the cent, halves upwards.
IsNearestCent(m, n, d) == m % 10 = 0 /\ d * m - 5 * d <= n /\ n < d * m + 5 * d

InvalidProducts(products) ==
  \/ products.kind # "list"
  \/ products.list = << >>
  \/ \E i \in 1..Len(products.list) :
       \/ products.list[i].quantity.t # "num"
       \/ products.list[i].quantity.v <= 0
       \/ products.list[i].productId \notin ValidObjectIds

\* C12 -- A checkout whose products field is missing, not a list, empty, or
\* holds an entry with a quantity of 0 (or negative, or not a number) or an
\* invalid ObjectId is answered 400 by a step that starts no session, reads no
\* product and writes nothing to the store; the request takes no later step.
C12_InvalidItemsRejected ==
  [][\A r \in Reqs :
       (pc'[r] # "idle" /\ InvalidProducts(body'[r].products)) =>
          /\ status'[r] = 400
          /\ pc'[r] = "done"
          /\ session'[r] = "none"
          /\ attempts'[r] = 0 /\ tx'[r] = NoTx
          /\ store' = store \/ pc[r] = "done"]_vars

\* A request with a quantity of 0 and one with a malformed product id have
\* been refused.
C12_Witness ==
  \E r1 \in Reqs : \E r2 \in Reqs \ {r1} :
    /\ body[r1].products = List(<<Entry("p1", Num(0))>>) /\ status[r1] = 400
    /\ body[r2].products = List(<<Entry("bad!", Num(2))>>) /\ status[r2] = 400

\* C13 -- Every item that sanitizeItems returns has a whole quantity above
\* zero, also when the quantity given lies between 0 and 1.
C13_SanitizedQuantityPositive ==
  \A r \in Reqs :
    (pc[r] # "idle" /\ sanitizeItems(body[r].products).error = "") =>
       \A i \in 1..Len(sanitizeItems(body[r].products).items) :
         sanitizeItems(body[r].products).items[i].quantity > 0

IsMissing(item) == item.productId \notin Products
MissingIds(items) ==
  LET sel == SelectSeq(items, IsMissing) IN [i \in 1..Len(sel) |-> sel[i].productId]

\* C14 -- A checkout that names at least one product id with no stored
\* product is answered 404 with a message that lists every missing id in input
\* order (or 500 when the storage fails first); it never reaches the stock
\* loop, writes no stock and creates no order.
C14_MissingProducts404 ==
  \A r \in Reqs :
    (session[r] # "none" /\ \E i \in 1..Len(Items(r)) : IsMissing(Items(r)[i])) =>
       /\ pc[r] \in {"txBegin", "finally", "done"}
       /\ tx[r].written = {} /\ ~tx[r].pending /\ ~failedAt[r].wrote
       /\ OrdersOf(r) = {}
       /\ status[r] # 0 =>
            \/ status[r] = 404 /\ failedAt[r].names = MissingIds(Items(r))
            \/ status[r] = 500 /\ failedAt[r].at = "storage"

\* One request named a stored and a missing product, the other two missing
\* products; both were answered 404 and the second message names both ids.
C14_Witness ==
  \E r1 \in Reqs : \E r2 \in Reqs \ {r1} :
    /\ status[r1] = 404 /\ Len(Items(r1)) = 2 /\ failedAt[r1].names = <<"px">>
    /\ status[r2] = 404 /\ failedAt[r2].names = <<"px", "py">>

\* C15 -- The lines are processed in input order.  The step that refuses a
\* checkout for stock (400) does so at the first line whose product has less
\* stock than the line asks for, names that product, and discards the
\* decrements of the earlier lines: the store is unchanged, and the stock of
\* each earlier line's product is still the value before its decrement.
C15_InsufficientStock400 ==
  [][\A r \in Reqs :
       /\ pc[r] = "txLine" =>
            /\ Len(tx[r].invoiceItems) = tx[r].i - 1
            /\ \A j \in 1..(tx[r].i - 1) :
                 /\ tx[r].invoiceItems[j].productId = Items(r)[j].productId
                 /\ tx[r].invoiceItems[j].quantity = Items(r)[j].quantity
                 /\ tx[r].docs[Items(r)[j].productId] >= 0
       /\ (pc[r] = "txLine" /\ status'[r] = 400) =>
            LET item == Items(r)[tx[r].i] IN
            /\ tx[r].docs[item.productId] < item.quantity
            /\ failedAt'[r].names = <<item.productId>>
            /\ tx'[r] = NoTx
            /\ store' = store
            /\ \A j \in 1..(tx[r].i - 1) :
                 stock'[Items(r)[j].productId]
                   = tx[r].docs[Items(r)[j].productId] + Items(r)[j].quantity]_vars

\* A checkout of p1 and then of more p2 than there is was refused for p2
\* after it had decremented p1, whose stock is untouched.
C15_Witness ==
  \E r \in Reqs :
    /\ status[r] = 400 /\ failedAt[r].wrote /\ failedAt[r].names = <<"p2">>
    /\ Items(r)[1].productId = "p1"
    /\ stock["p1"] = InitStock["p1"]

\* C16 -- Buyer resolution of a checkout whose items are valid: a userId
\* that matches no user is answered 404, and no userId with no inline buyer
\* that has both an email and a name is answered 400; in both cases no
\* session is started, no callback runs and the store is not written.
C16_BuyerResolution ==
  [][\A r \in Reqs :
       (pc[r] = "idle" /\ pc'[r] # "idle" /\ ~InvalidProducts(body'[r].products)) =>
          /\ (body'[r].userId # "" /\ body'[r].userId \notin Users) =>
                /\ status'[r] = 404
                /\ session'[r] = "none" /\ pc'[r] = "done" /\ store' = store
          /\ (body'[r].userId = "" /\ body'[r].user # "full") =>
                /\ status'[r] = 400
                /\ session'[r] = "none" /\ pc'[r] = "done" /\ store' = store]_vars

\* C17 -- The commit of a checkout made with the userId of an existing user
\* empties that user's cart and appends to the user's orders exactly one
\* entry, which holds the _id and the code of the order that the same commit
\* adds to the store; once the checkout is answered 201 the cart is empty.
C17_UserUpdated ==
  [][\A r \in Reqs :
       /\ (pc[r] = "txCommit" /\ pc'[r] = "respond" /\ body[r].userId \in Users) =>
            LET u == body[r].userId
                new == orders'[Len(orders')]
            IN /\ Len(orders') = Len(orders) + 1
               /\ new._id[1] = r
               /\ users'[u].cart = << >>
               /\ users'[u].orders
                    = Append(users[u].orders, [orderId |-> new._id, codigo |-> new.id])
       /\ (status'[r] = 201 /\ body'[r].userId \in Users) =>
            users'[body'[r].userId].cart = << >>]_vars

\* The same user checked out twice: the second entry follows the first and
\* the two entries refer to different orders.
C17_Witness ==
  /\ \A r \in Reqs : status[r] = 201 /\ body[r].userId = "u1"
  /\ users["u1"].cart = << >>
  /\ Len(users["u1"].orders) = 2
  /\ users["u1"].orders[1].orderId # users["u1"].orders[2].orderId

\* C18 -- sendMail is called only after the transaction has committed: a
\* request that has not committed, or was answered with an error, has no
\* sendMail call, and every call names an order of that request that is in
\* the store.
C18_MailAfterCommit ==
  \A r \in Reqs :
    /\ (pc[r] \in TxnPcs \cup {"idle"} \/ status[r] \in ErrorStatus) =>
          sendMailCalls[r] = 0 /\ mailResult[r].st = "none"
    /\ sendMailCalls[r] > 0 =>
          /\ mailResult[r].st # "none"
          /\ mailResult[r].order[1] = r
          /\ \E k \in 1..Len(orders) : orders[k]._id = mailResult[r].order

\* One checkout committed on the second run of its callback and was
\* notified for the order of that run; the other had written stock when the
\* storage failed, and was not notified.
C18_Witness ==
  \E r1 \in Reqs : \E r2 \in Reqs \ {r1} :
    /\ status[r1] = 201 /\ sendMailCalls[r1] = 1 /\ mailResult[r1].order = <<r1, 2>>
    /\ status[r2] = 500 /\ failedAt[r2].wrote /\ sendMailCalls[r2] = 0

\* C19 -- The outcome of the notification never changes the result of the
\* checkout.  A request whose sendMail was called is answered 201, has been
\* called once, has its one order in the store and its stock decremented,
\* whether the call is pending, resolved with ok, resolved with ok = false or
\* threw; and the step in which the call settles changes nothing but the
\* outcome.
C19_MailOutcomeIgnored ==
  [][\A r \in Reqs :
       /\ mailResult'[r].st # "none" =>
            /\ status'[r] = 201
            /\ sendMailCalls'[r] = 1
            /\ \E k \in 1..Len(orders') :
                 /\ orders'[k]._id = mailResult'[r].order
                 /\ \A j \in 1..Len(orders') : orders'[j]._id[1] = r => j = k
            /\ \A p \in Products : stock'[p] <= InitStock[p] - QtyOf(r, p)
       /\ (mailResult[r].st = "pending" /\ mailResult'[r].st # "pending") =>
            /\ status' = status /\ sendMailCalls' = sendMailCalls
            /\ store' = store /\ pc' = pc /\ session' = session]_vars

\* Both checkouts were answered 201 and are over; the sendMail of one threw,
\* that of the other has not completed.
C19_Witness ==
  \E r1 \in Reqs : \E r2 \in Reqs \ {r1} :
    /\ pc[r1] = "done" /\ status[r1] = 201 /\ mailResult[r1].st = "threw"
    /\ pc[r2] = "done" /\ status[r2] = 201 /\ mailResult[r2].st = "pending"

\* C20 (as stated) -- The stock of a product changes only in the commit of a
\* checkout transaction.
C20_OnlyCheckoutWritesStock ==
  [][\A p \in Products :
       stock'[p] # stock[p] => \E r \in Reqs : pc[r] = "txCommit" /\ pc'[r] = "respond"]_vars

\* C20 (amended) -- The stock of a product changes only in the commit of a
\* checkout transaction, which lowers it by the quantity the checkout asks
\* for, or in a PUT /products/:identifier, which sets it to a whole number
\* >= 0 and touches nothing of the checkouts, the orders or the users.
C20_StockWriters ==
  [][\A p \in Products :
       stock'[p] # stock[p] =>
         \/ \E r \in Reqs : /\ pc[r] = "txCommit" /\ pc'[r] = "respond"
                             /\ stock'[p] = stock[p] - QtyOf(r, p)
                             /\ putCount' = putCount
         \/ /\ putCount' = putCount + 1
            /\ stock'[p] >= 0
            /\ checkout' = checkout /\ orders' = orders /\ users' = users
            /\ sequence' = sequence]_vars

\* A PUT has set the stock of p2 to 0 while no checkout asked for p2, and a
\* checkout of p1 has committed and lowered the stock of p1.
C20_Witness ==
  /\ putCount >= 1
  /\ stock["p2"] = 0 /\ \A q \in Reqs : QtyOf(q, "p2") = 0
  /\ \E r \in Reqs : status[r] = 201 /\ QtyOf(r, "p1") = 1
  /\ stock["p1"] < InitStock["p1"]

RawCharacters == {"&", "<", ">", "\"", "'"}

\* C21 -- GET /invoices/:id leaves the store as it is and answers 400 for
\* an id that is no ObjectId, 404 for an id of no order, and 200 with the
\* rendered document otherwise (500 only when the lookup fails).
C21_GetInvoice ==
  [][(view.status = 0 /\ view'.status # 0) =>
       /\ store' = store
       /\ view'.status =
            (IF ~ObjectIdIsValid(view'.id) THEN 400
             ELSE IF view'.threw = "storage" THEN 500
             ELSE IF \A k \in 1..Len(orders) : orders[k]._id[1] # view'.id THEN 404
             ELSE 200)]_vars

\* C22 -- No character & < > " ' of a value stored in the order reaches the
\* rendered document as it is: each is replaced by its entity.
C22_RenderedEscaped ==
  view.status = 200 => \A i \in 1..Len(view.html) : view.html[i] \notin RawCharacters

\* A body with a malformed or missing field: the products, a userId that is
\* no ObjectId, or no userId and no inline buyer with email and name.
MalformedBody(b) ==
  \/ InvalidProducts(b.products)
  \/ b.userId # "" /\ b.userId \notin ValidObjectIds
  \/ b.userId = "" /\ b.user # "full"

\* C23 -- A checkout with a malformed or missing request field, a userId
\* that is no ObjectId included, is answered 400; a 500 comes only from a
\* failure of the storage or of the transaction.
C23_MalformedIs400 ==
  \A r \in Reqs :
    pc[r] # "idle" =>
      /\ MalformedBody(body[r]) => status[r] = 400
      /\ status[r] = 500 => failedAt[r].at \in {"tx", "storage"}

\* C24 -- A checkout with both a userId of no user and an invalid items
\* list is answered 404 for the buyer, not 400 for the items.
C24_BuyerBeforeItems ==
  \A r \in Reqs :
    (/\ pc[r] # "idle"
     /\ body[r].userId \in ValidObjectIds \ Users
     /\ InvalidProducts(body[r].products))
    => status[r] = 404

\* C25 -- Within one run of the transaction callback the writes come in the
\* order: the stock writes of all lines, the allocation of the order id on the
\* counter, the insert of the Order, the update of the User.  A stock write
\* happens before any allocation or insert of the run, the allocation after
\* the last line and before the insert, the insert after the allocation and
\* before the user update, the user update after the insert.
C25_WriteOrder ==
  [][\A r \in Reqs :
       /\ (tx'[r].written # tx[r].written /\ tx'[r].written # {}) =>
            tx[r].updated = 0 /\ tx[r].nextId = 0 /\ ~tx[r].pending /\ tx[r].user = << >>
       /\ ((tx'[r].updated # tx[r].updated /\ tx'[r].updated # 0)
            \/ (tx'[r].nextId # tx[r].nextId /\ tx'[r].nextId # 0)) =>
            /\ sequence' # sequence \/ tx[r].updated # 0
            /\ tx[r].i = Len(Items(r)) + 1
            /\ ~tx[r].pending /\ tx[r].user = << >>
       /\ (tx'[r].pending /\ ~tx[r].pending) =>
            tx[r].nextId # 0 /\ tx[r].i = Len(Items(r)) + 1 /\ tx[r].user = << >>
       /\ (tx'[r].user # << >> /\ tx[r].user = << >>) => tx[r].pending]_vars

\* The second run of a callback is about to commit the stock writes of two
\* lines, an order and the user update.
C25_Witness ==
  \E r \in Reqs :
    /\ pc[r] = "txCommit" /\ attempts[r] = 2
    /\ Cardinality(tx[r].written) = 2 /\ tx[r].pending /\ tx[r].user # << >>

\* C26 -- The commit of a checkout made with an inline buyer (no userId)
\* changes no User record and adds an order that has no userId; no run of
\* its callback holds a user update.
C26_InlineBuyerFrame ==
  [][\A r \in Reqs :
       /\ (pc'[r] # "idle" /\ body'[r].userId = "") => tx'[r].user = << >>
       /\ (pc[r] = "txCommit" /\ pc'[r] = "respond" /\ body[r].userId = "") =>
            /\ users' = users /\ userLastWrite' = userLastWrite
            /\ Len(orders') = Len(orders) + 1
            /\ orders'[Len(orders')]._id[1] = r
            /\ orders'[Len(orders')].userId = ""]_vars

\* A checkout with an inline buyer was answered 201; its order has no userId
\* and the stored user has the cart and the orders of the start.
C26_Witness ==
  \E r \in Reqs :
    /\ status[r] = 201 /\ body[r].userId = "" /\ body[r].user = "full"
    /\ \E k \in 1..Len(orders) : orders[k]._id[1] = r /\ orders[k].userId = ""
    /\ users["u1"].cart = InitCart /\ users["u1"].orders = << >>

\* A caller's second findOneAndUpdate, the floor correction, is this step.
CorrectionStep ==
  \/ \E r \in Reqs : pc[r] = "txCorrect" /\ pc'[r] = "txOrderSave"
  \/ \E o \in OrderReqs : opc[o] = "correct" /\ opc'[o] = "insert"

\* C27 -- Whatever the stored counter at the start (absent, below 29, 28,
\* 29, above) and however the calls interleave, every value getNextOrderId
\* returns is >= 30; a call whose increment gave less than 30 sets the counter
\* to exactly 30 and returns 30.
C27_ReturnedAtLeastFloor ==
  [][/\ \A i \in 1..Len(returned') : returned'[i] >= 30
     /\ \A r \in Reqs :
          (tx'[r].updated # 0 /\ tx'[r].updated < 30) =>
             pc'[r] = "txCorrect" \/ tx'[r].nextId = 30
     /\ \A o \in OrderReqs :
          (opc'[o] = "insert" /\ opc[o] = "idle") => oupdated'[o] >= 30
     /\ CorrectionStep =>
          /\ CounterValue' = 30
          /\ Len(returned') = Len(returned) + 1
          /\ returned'[Len(returned')] = 30]_vars

\* From a stored counter of 28 one caller's increment gave 29 and was
\* corrected to 30, and a second caller got 31.
C27_Witness ==
  /\ Len(returned) >= 2
  /\ returned[1] = 30 /\ returned[2] = 31
  /\ \E r \in Reqs : tx[r].updated = 29 /\ tx[r].nextId = 30

\* C28 -- The stored orders have pairwise distinct id codes in every state,
\* whether made by POST /invoices or POST /orders; a request that was given
\* the id of a stored order does not store a second order with it.
C28_OrderIdsDistinct ==
  \A i \in 1..Len(orders), j \in 1..Len(orders) : i # j => orders[i].id # orders[j].id

\* getNextOrderId returned 30 to three callers: one checkout stored order
\* 30, the save of the other failed on the index in its first run and the
\* checkout was aborted, and POST /orders was refused.
C28_Witness ==
  /\ Len(orders) = 1 /\ orders[1].id = 30
  /\ \E r1 \in Reqs : \E r2 \in Reqs \ {r1} :
       /\ status[r1] = 201 /\ orders[1]._id[1] = r1
       /\ status[r2] = 500 /\ failedAt[r2].at = "tx" /\ attempts[r2] = 1
  /\ \E o \in OrderReqs : oupdated[o] = 30 /\ ostatus[o] = 400

\* C29: the counter update is outside the checkout transaction: an abort or a
\* re-run of the callback never changes the counter, and the id code that a
\* discarded run of a callback was given is never the id code of an order
\* that is stored later.
C29_AbortedIdNeverReused ==
  [][/\ \A r \in Reqs :
          (tx[r].nextId # 0 /\ pc'[r] \in {"txBegin", "finally"}) => sequence' = sequence
     /\ Len(orders') > Len(orders) =>
          \A q \in Reqs : orders'[Len(orders')].id \notin failedAt[q].ids]_vars

\* C30: a session that POST /invoices started is eventually ended, and ended
\* once: it is ended only by a step that finds it open and stays ended; a
\* request that started no session never has one.  Every request that
\* arrived is eventually answered, and an answer is never followed by a
\* second one.
C30_SessionEndedOnce ==
  /\ \A r \in Reqs : (session[r] = "open") ~> (session[r] = "ended")
  /\ \A r \in Reqs : (pc[r] # "idle") ~> (pc[r] = "done" /\ status[r] # 0)
  /\ [][\A r \in Reqs :
          /\ session'[r] # session[r] =>
                \/ session[r] = "none" /\ session'[r] = "open" /\ pc[r] = "idle"
                \/ session[r] = "open" /\ session'[r] = "ended" /\ status[r] # 0
          /\ status[r] # 0 => status'[r] = status[r]
          /\ pc'[r] = "done" => session'[r] \in {"none", "ended"} /\ status'[r] # 0]_vars

\* One request was answered 201 and the other was refused inside the
\* transaction; both have ended the session they started.
C30_Witness ==
  \E r1 \in Reqs : \E r2 \in Reqs \ {r1} :
    /\ pc[r1] = "done" /\ status[r1] = 201 /\ session[r1] = "ended"
    /\ pc[r2] = "done" /\ status[r2] \in {400, 404, 500} /\ failedAt[r2].at # "idle"
    /\ session[r2] = "ended"

====
